---- MODULE Spec2Model ----
(***************************************************************************)
(* The forecast-discussion widget of src/js/widgets/discussion.js.         *)
(*                                                                         *)
(* Strings are modelled as sequences of tokens.  A token is a record       *)
(* [k |-> kind, n |-> number of characters]:                               *)
(*   "sp"   one space or tab          "nl"   one newline                   *)
(*   "dot"  one '.'                   "bul"  one of the bullets U+2022,    *)
(*   "sq"   one of U+25AA, U+25AB            U+00B7 (in both bullet        *)
(*          (only in the residual            classes of formatText)        *)
(*          bullet class)             "dash" one '-' or '*' (only in the   *)
(*   "usa"  the marker "usa.gov"             line-bullet class)            *)
(*   "kw"   the word TONIGHT (a section keyword that is also a time-period *)
(*          word of the highlighter)                                       *)
(*   "ph"   a phrase of n characters: short words separated by single      *)
(*          spaces, without '.', newline, bullet, marker, keyword or any   *)
(*          word the highlighter looks for                                 *)
(* and, in formatted output, one token per HTML tag.  Every regular        *)
(* expression of formatText treats the inside of a phrase uniformly, so     *)
(* the code's steps are computed token by token, and lengths are the sums  *)
(* of the tokens' character counts.                                        *)
(***************************************************************************)
EXTENDS Integers, Sequences, FiniteSets, TLC

VARIABLES
    rawText,     \* the string handed to formatText
    cleaned,     \* cleanedText of that call
    recleaned,   \* the cleaning chain applied to cleaned
    fragments,   \* the contents of the <p> elements, before highlighting
    formatted,   \* the value formatText returned
    tpc          \* how far the text pipeline went: "input", "cleaned", "recleaned", "formatted"

textVars == <<rawText, cleaned, recleaned, fragments, formatted, tpc>>

VARIABLES
    dateArg,     \* the value handed to formatDate
    dateRes,     \* the string formatDate returned
    dpc          \* "input" before the call of formatDate, "done" after it

dateVars == <<dateArg, dateRes, dpc>>

VARIABLES
    isLocal,     \* window.location.origin names localhost or 127.0.0.1
    currentData, \* this.currentData
    currentOffice, \* this.currentOffice
    display,     \* this.content.innerHTML
    calls,       \* the loadDiscussion calls that reached the fetch, by number
    nextId,      \* the number the next such call gets
    lastOp,      \* the operation that ran last, and the call it continued
    trace,       \* what the last operation did, in order
    fault,       \* some operation ended with an exception nobody caught
    oddText      \* some payload handed over had a text that is no string

widgetVars == <<isLocal, currentData, currentOffice, display, calls, nextId,
                lastOp, trace, fault, oddText>>

vars == <<widgetVars, textVars, dateVars>>

T(k, n) == [k |-> k, n |-> n]
Sp == T("sp", 1)
Nl == T("nl", 1)
Dot == T("dot", 1)
Bul == T("bul", 1)
Sq == T("sq", 1)
Dash == T("dash", 1)
Usa == T("usa", 7)
Kw == T("kw", 7)
Ph(n) == T("ph", n)
TagP == T("<p>", 3)
TagEndP == T("</p>", 4)
TagBr == T("<br>", 4)
TagStrong == T("<strong>", 8)
TagEndStrong == T("</strong>", 9)

TagKinds == {"<p>", "</p>", "<br>", "<strong>", "</strong>"}
WordKinds == {"ph", "kw", "usa"}

IsWs(t) == t.k \in {"sp", "nl"}
IsTag(t) == t.k \in TagKinds

\* String.prototype.length
RECURSIVE StrLen(_)
StrLen(s) == IF s = <<>> THEN 0 ELSE Head(s).n + StrLen(Tail(s))

\* least q >= p with q past the end or s[q] not whitespace (a greedy \s*)
RECURSIVE SkipWs(_, _)
SkipWs(s, p) == IF p > Len(s) \/ ~IsWs(s[p]) THEN p ELSE SkipWs(s, p + 1)

\* least q >= p with q past the end or s[q] not a space or tab (a greedy [ \t]*)
RECURSIVE SkipSp(_, _)
SkipSp(s, p) == IF p > Len(s) \/ s[p].k # "sp" THEN p ELSE SkipSp(s, p + 1)

\* least q >= p with q past the end or s[q] a newline (a greedy [^\n]*)
RECURSIVE SkipLine(_, _)
SkipLine(s, p) == IF p > Len(s) \/ s[p].k = "nl" THEN p ELSE SkipLine(s, p + 1)

\* least q >= p with q past the end or s[q] not of kind k (a greedy run)
RECURSIVE SkipKind(_, _, _)
SkipKind(s, p, k) == IF p > Len(s) \/ s[p].k # k THEN p ELSE SkipKind(s, p + 1, k)

\* String.prototype.trim
RECURSIVE TrimLeft(_)
TrimLeft(s) == IF s # <<>> /\ IsWs(Head(s)) THEN TrimLeft(Tail(s)) ELSE s

RECURSIVE TrimRight(_)
TrimRight(s) ==
    IF s # <<>> /\ IsWs(s[Len(s)]) THEN TrimRight(SubSeq(s, 1, Len(s) - 1)) ELSE s

Trim(s) == TrimRight(TrimLeft(s))

(***************************************************************************)
(* The cleaning chain of formatText.                                       *)
(***************************************************************************)

\* the lookahead (?=\n\n|\n\s*\n|$) at position p
BlankLineAt(s, p) ==
    \/ p > Len(s)
    \/ /\ s[p].k = "nl"
       /\ LET q == SkipSp(s, p + 1) IN q <= Len(s) /\ s[q].k = "nl"

\* the end of the lazy .*? : the first position from p on where the lookahead holds
RECURSIVE SectionEnd(_, _)
SectionEnd(s, p) == IF BlankLineAt(s, p) THEN p ELSE SectionEnd(s, p + 1)

\* .replace(/usa\.gov.*?(?=\n\n|\n\s*\n|$)/gis, '')
RECURSIVE RemoveUsaFrom(_, _)
RemoveUsaFrom(s, p) ==
    IF p > Len(s) THEN <<>>
    ELSE IF s[p].k = "usa" THEN RemoveUsaFrom(s, SectionEnd(s, p + 1))
    ELSE <<s[p]>> \o RemoveUsaFrom(s, p + 1)

RemoveUsa(s) == RemoveUsaFrom(s, 1)

\* ^ under the m flag
LineStart(s, p) == p = 1 \/ s[p - 1].k = "nl"

\* .replace(/^\s*[•·\-\*]\s*[^\n]*$/gm, '')
RECURSIVE RemoveBulletLinesFrom(_, _)
RemoveBulletLinesFrom(s, p) ==
    IF p > Len(s) THEN <<>>
    ELSE LET q == SkipWs(s, p) IN
         IF LineStart(s, p) /\ q <= Len(s) /\ s[q].k \in {"bul", "dash"}
         THEN RemoveBulletLinesFrom(s, SkipLine(s, SkipWs(s, q + 1)))
         ELSE <<s[p]>> \o RemoveBulletLinesFrom(s, p + 1)

RemoveBulletLines(s) == RemoveBulletLinesFrom(s, 1)

\* .replace(/\s*[•·▪▫]\s*/g, ' ')
RECURSIVE ReplaceResidualFrom(_, _)
ReplaceResidualFrom(s, p) ==
    IF p > Len(s) THEN <<>>
    ELSE LET q == SkipWs(s, p) IN
         IF q <= Len(s) /\ s[q].k \in {"bul", "sq"}
         THEN <<Sp>> \o ReplaceResidualFrom(s, SkipWs(s, q + 1))
         ELSE <<s[p]>> \o ReplaceResidualFrom(s, p + 1)

ReplaceResidual(s) == ReplaceResidualFrom(s, 1)

\* .replace(/[ \t]+/g, ' ')
RECURSIVE CollapseSpacesFrom(_, _)
CollapseSpacesFrom(s, p) ==
    IF p > Len(s) THEN <<>>
    ELSE IF s[p].k = "sp" THEN <<Sp>> \o CollapseSpacesFrom(s, SkipSp(s, p))
    ELSE <<s[p]>> \o CollapseSpacesFrom(s, p + 1)

CollapseSpaces(s) == CollapseSpacesFrom(s, 1)

\* .replace(/\n[ \t]+/g, '\n')
RECURSIVE StripLineIndentFrom(_, _)
StripLineIndentFrom(s, p) ==
    IF p > Len(s) THEN <<>>
    ELSE IF s[p].k = "nl" THEN <<Nl>> \o StripLineIndentFrom(s, SkipSp(s, p + 1))
    ELSE <<s[p]>> \o StripLineIndentFrom(s, p + 1)

StripLineIndent(s) == StripLineIndentFrom(s, 1)

\* .replace(/\n{3,}/g, '\n\n')
RECURSIVE CollapseNewlinesFrom(_, _)
CollapseNewlinesFrom(s, p) ==
    IF p > Len(s) THEN <<>>
    ELSE IF s[p].k = "nl"
         THEN LET e == SkipKind(s, p, "nl") IN
              (IF e - p >= 3 THEN <<Nl, Nl>> ELSE SubSeq(s, p, e - 1))
                  \o CollapseNewlinesFrom(s, e)
    ELSE <<s[p]>> \o CollapseNewlinesFrom(s, p + 1)

CollapseNewlines(s) == CollapseNewlinesFrom(s, 1)

\* cleanedText of formatText
CleanText(text) ==
    Trim(CollapseNewlines(StripLineIndent(CollapseSpaces(
        ReplaceResidual(RemoveBulletLines(RemoveUsa(text)))))))

(***************************************************************************)
(* Segmentation of formatText.                                             *)
(***************************************************************************)

MinFragmentLen == 15
MaxSentences == 3
ForceBreakLen == 600
ForceSentences == 2
LongParagraphLen == 700
ChunkLimit == 350

\* String.prototype.split(/\n\n+|\.{3,}/)
RECURSIVE SplitBlocksFrom(_, _, _)
SplitBlocksFrom(s, p, cur) ==
    IF p > Len(s) THEN <<cur>>
    ELSE IF s[p].k = "nl" /\ SkipKind(s, p, "nl") - p >= 2
         THEN <<cur>> \o SplitBlocksFrom(s, SkipKind(s, p, "nl"), <<>>)
    ELSE IF s[p].k = "dot" /\ SkipKind(s, p, "dot") - p >= 3
         THEN <<cur>> \o SplitBlocksFrom(s, SkipKind(s, p, "dot"), <<>>)
    ELSE SplitBlocksFrom(s, p + 1, Append(cur, s[p]))

SplitBlocks(s) == SplitBlocksFrom(s, 1, <<>>)

\* String.prototype.split(/\.\s+/)
RECURSIVE SplitSentencesFrom(_, _, _)
SplitSentencesFrom(s, p, cur) ==
    IF p > Len(s) THEN <<cur>>
    ELSE IF s[p].k = "dot" /\ p < Len(s) /\ IsWs(s[p + 1])
         THEN <<cur>> \o SplitSentencesFrom(s, SkipWs(s, p + 1), <<>>)
    ELSE SplitSentencesFrom(s, p + 1, Append(cur, s[p]))

SplitSentences(s) == SplitSentencesFrom(s, 1, <<>>)

\* WithPeriod with the period never put back
WithoutPeriod(sentences, i) == Trim(sentences[i])

\* sentence += '.' unless it is the last sentence
WithPeriod(sentences, i) ==
    IF i < Len(sentences) THEN Append(Trim(sentences[i]), Dot) ELSE Trim(sentences[i])

\* currentParagraph += (currentParagraph ? ' ' : '') + sentence
Join(cur, sentence) == cur \o (IF cur # <<>> THEN <<Sp>> ELSE <<>>) \o sentence

shouldStartNewParagraph(sentence, currentParagraph) ==
    /\ currentParagraph # <<>>
    /\ sentence # <<>>
    /\ Head(sentence).k = "kw"

\* the sentence loop of formatText (no blank line and no ellipsis in the text)
RECURSIVE SentenceLoop(_, _, _, _)
SentenceLoop(sentences, i, cur, paras) ==
    IF i > Len(sentences)
    THEN IF Trim(cur) # <<>> THEN Append(paras, Trim(cur)) ELSE paras
    ELSE IF Trim(sentences[i]) = <<>> THEN SentenceLoop(sentences, i + 1, cur, paras)
    ELSE LET sentence == WithPeriod(sentences, i)
             start == shouldStartNewParagraph(sentence, cur)
             paras1 == IF start /\ Trim(cur) # <<>> THEN Append(paras, Trim(cur)) ELSE paras
             cur1 == IF start THEN sentence ELSE Join(cur, sentence)
         IN  IF Len(SplitSentences(cur1)) >= MaxSentences
             THEN SentenceLoop(sentences, i + 1, <<>>, Append(paras1, Trim(cur1)))
             ELSE SentenceLoop(sentences, i + 1, cur1, paras1)

\* .map(p => p.trim()).filter(p => p.length > 15)
RECURSIVE KeepFragments(_)
KeepFragments(pieces) ==
    IF pieces = <<>> THEN <<>>
    ELSE (IF StrLen(Trim(Head(pieces))) > MinFragmentLen THEN <<Trim(Head(pieces))>> ELSE <<>>)
             \o KeepFragments(Tail(pieces))

RECURSIVE ForceLoop(_, _, _, _)
ForceLoop(sentences, i, cur, paras) ==
    IF i > Len(sentences)
    THEN IF Trim(cur) # <<>> THEN Append(paras, Trim(cur)) ELSE paras
    ELSE IF Trim(sentences[i]) = <<>> THEN ForceLoop(sentences, i + 1, cur, paras)
    ELSE LET sentence == WithPeriod(sentences, i) IN
         IF cur # <<>> /\ Len(SplitSentences(cur)) >= ForceSentences
         THEN ForceLoop(sentences, i + 1, sentence, Append(paras, Trim(cur)))
         ELSE ForceLoop(sentences, i + 1, Join(cur, sentence), paras)

forceParagraphBreaks(text) == ForceLoop(SplitSentences(text), 1, <<>>, <<>>)

RECURSIVE BreakLoop(_, _, _, _)
BreakLoop(sentences, i, cur, chunks) ==
    IF i > Len(sentences)
    THEN IF Trim(cur) # <<>> THEN Append(chunks, Trim(cur)) ELSE chunks
    ELSE IF Trim(sentences[i]) = <<>> THEN BreakLoop(sentences, i + 1, cur, chunks)
    ELSE LET sentence == WithPeriod(sentences, i) IN
         IF /\ cur # <<>>
            /\ \/ StrLen(cur \o <<Sp>> \o sentence) > ChunkLimit
               \/ shouldStartNewParagraph(sentence, cur)
         THEN BreakLoop(sentences, i + 1, sentence, Append(chunks, Trim(cur)))
         ELSE BreakLoop(sentences, i + 1, Join(cur, sentence), chunks)

\* breakLongParagraph with no break made
KeepLongParagraph(paragraph) == <<paragraph>>

\* the chunks of breakLongParagraph, before each is wrapped in <p>..</p>
breakLongParagraph(paragraph) == BreakLoop(SplitSentences(paragraph), 1, <<>>, <<>>)

\* paragraphs of formatText when the map over them starts
Paragraphs(cleanedText) ==
    LET initialSplit == SplitBlocks(cleanedText)
        paragraphs == IF Len(initialSplit) = 1
                      THEN SentenceLoop(SplitSentences(cleanedText), 1, <<>>, <<>>)
                      ELSE KeepFragments(initialSplit)
    IN  IF Len(paragraphs) = 1 /\ StrLen(paragraphs[1]) > ForceBreakLen
        THEN forceParagraphBreaks(paragraphs[1])
        ELSE paragraphs

\* the fragments the map emits for the paragraphs, in order
RECURSIVE MapParagraphs(_)
MapParagraphs(paragraphs) ==
    IF paragraphs = <<>> THEN <<>>
    ELSE (IF StrLen(Head(paragraphs)) > LongParagraphLen
          THEN breakLongParagraph(Head(paragraphs))
          ELSE <<Head(paragraphs)>>) \o MapParagraphs(Tail(paragraphs))

\* cleanedText.replace(/\n/g, '<br>')
RECURSIVE NewlinesToBr(_)
NewlinesToBr(s) ==
    IF s = <<>> THEN <<>>
    ELSE <<IF Head(s).k = "nl" THEN TagBr ELSE Head(s)>> \o NewlinesToBr(Tail(s))

\* the contents of the <p> elements of formatted, before highlighting
Fragments(cleanedText) ==
    LET frags == MapParagraphs(Paragraphs(cleanedText))
    IN  IF frags = <<>> THEN <<NewlinesToBr(cleanedText)>> ELSE frags

RECURSIVE WrapAll(_)
WrapAll(frags) ==
    IF frags = <<>> THEN <<>>
    ELSE <<TagP>> \o Head(frags) \o <<TagEndP>> \o WrapAll(Tail(frags))

\* \b before and after the token at p
WordBounded(s, p) ==
    /\ p = 1 \/ s[p - 1].k \notin WordKinds
    /\ p = Len(s) \/ s[p + 1].k \notin WordKinds

\* the highlighting replaces of formatText (of their words, the token alphabet has TONIGHT)
RECURSIVE HighlightFrom(_, _)
HighlightFrom(s, p) ==
    IF p > Len(s) THEN <<>>
    ELSE (IF s[p].k = "kw" /\ WordBounded(s, p)
          THEN <<TagStrong, s[p], TagEndStrong>>
          ELSE <<s[p]>>) \o HighlightFrom(s, p + 1)

Highlight(s) == HighlightFrom(s, 1)

formatText(text) ==
    IF text = <<>> THEN <<>>
    ELSE Highlight(WrapAll(Fragments(CleanText(text))))

(***************************************************************************)
(* JavaScript values that reach formatDate, and formatDate.                *)
(* A value is [ty, valid, t]: t is a time in seconds since the epoch, and  *)
(* valid says that the value stands for one (a parseable date string, a    *)
(* number that is not NaN, a Date that is not an Invalid Date).            *)
(***************************************************************************)

Undefined == [ty |-> "undefined", valid |-> FALSE, t |-> 0]
Null == [ty |-> "null", valid |-> FALSE, t |-> 0]
EmptyString == [ty |-> "emptystring", valid |-> FALSE, t |-> 0]
GarbageString == [ty |-> "string", valid |-> FALSE, t |-> 0]
DateString(t) == [ty |-> "string", valid |-> TRUE, t |-> t]
NaNNumber == [ty |-> "number", valid |-> FALSE, t |-> 0]
Number(t) == [ty |-> "number", valid |-> TRUE, t |-> t]
InvalidDate == [ty |-> "date", valid |-> FALSE, t |-> 0]
DateObject(t) == [ty |-> "date", valid |-> TRUE, t |-> t]

\* !value
Falsy(value) ==
    \/ value.ty \in {"undefined", "null", "emptystring"}
    \/ value.ty = "number" /\ (~value.valid \/ value.t = 0)

\* new Date(value)
NewDate(value) ==
    IF value.ty = "null" THEN DateObject(0)
    ELSE IF value.valid THEN DateObject(value.t)
    ELSE InvalidDate

\* the strings formatDate returns; a short date shows the minute, not the second
Unknown == [str |-> "Unknown", t |-> 0]
InvalidDateString == [str |-> "Invalid Date", t |-> 0]
ShortDate(t) == [str |-> "short", t |-> t \div 60]

\* Date.prototype.toLocaleDateString('en-US', {month, day, hour, minute}): it
\* returns "Invalid Date" for an Invalid Date and throws for none of these values
toLocaleDateString(date) ==
    IF date.valid THEN ShortDate(date.t) ELSE InvalidDateString

formatDate(date) ==
    IF Falsy(date) THEN Unknown
    ELSE toLocaleDateString(NewDate(date))

(***************************************************************************)
(* The widget: payloads, displays, render.                                 *)
(***************************************************************************)

\* the text of a payload: undefined, a string, or a number
NoText == [ty |-> "undefined", s |-> <<>>, v |-> 0]
StringText(s) == [ty |-> "string", s |-> s, v |-> 0]
NumberText(v) == [ty |-> "number", s |-> <<>>, v |-> v]

TextA == <<Kw, Sp, Ph(16), Dot>>
TextB == <<Ph(16), Nl, Nl, Ph(3)>>

\* the payloads, by name; widget state holds a payload by reference
PayloadTable ==
    [null |-> [kind |-> "null", office |-> "", officeName |-> "", text |-> NoText,
               updated |-> Undefined, issuedTime |-> ""],
     noProperties |-> [kind |-> "noproperties", office |-> "", officeName |-> "",
                       text |-> NoText, updated |-> Undefined, issuedTime |-> ""],
     bulletinA |-> [kind |-> "bulletin", office |-> "AJK", officeName |-> "Juneau",
                    text |-> StringText(TextA), updated |-> DateString(125),
                    issuedTime |-> ""],
     bulletinB |-> [kind |-> "bulletin", office |-> "AFC", officeName |-> "",
                    text |-> StringText(TextB), updated |-> DateString(300),
                    issuedTime |-> "Oct 3, 4:00 PM"],
     emptyText |-> [kind |-> "bulletin", office |-> "AJK", officeName |-> "",
                    text |-> StringText(<<>>), updated |-> DateString(125),
                    issuedTime |-> ""],
     blankText |-> [kind |-> "bulletin", office |-> "AJK", officeName |-> "",
                    text |-> StringText(<<Sp, Nl>>), updated |-> DateString(125),
                    issuedTime |-> ""],
     noText |-> [kind |-> "bulletin", office |-> "AJK", officeName |-> "",
                 text |-> NoText, updated |-> DateString(125), issuedTime |-> ""],
     numberText |-> [kind |-> "bulletin", office |-> "AJK", officeName |-> "",
                     text |-> NumberText(42), updated |-> DateString(125),
                     issuedTime |-> ""],
     noDate |-> [kind |-> "bulletin", office |-> "AJK", officeName |-> "",
                 text |-> StringText(TextA), updated |-> Undefined, issuedTime |-> ""],
     badDate |-> [kind |-> "bulletin", office |-> "AFC", officeName |-> "Anchorage",
                  text |-> StringText(TextB), updated |-> GarbageString,
                  issuedTime |-> ""]]

Payloads == DOMAIN PayloadTable

\* the object a reference names
Obj(data) == PayloadTable[data]

NullData == "null"
BulletinA == "bulletinA"
BulletinB == "bulletinB"
BlankTextBulletin == "blankText"

Offices == {"AJK", "AFC"}

LoadFailed == "Unable to load forecast discussion"
NoDiscussion == "No discussion available"

NoTime == [str |-> "", t |-> 0]
IssuedTime(s) == [str |-> s, t |-> 0]

\* this.content.innerHTML; src is the payload a rendered bulletin was read from
Loading ==
    [kind |-> "loading", message |-> "", office |-> "", time |-> NoTime, body |-> <<>>,
     src |-> NullData]
ErrorDisplay(message) ==
    [kind |-> "error", message |-> message, office |-> "", time |-> NoTime, body |-> <<>>,
     src |-> NullData]
Placeholder ==
    [kind |-> "placeholder", message |-> "", office |-> "", time |-> NoTime, body |-> <<>>,
     src |-> NullData]
Content(data) ==
    [kind |-> "content",
     message |-> "",
     office |-> IF Obj(data).officeName # "" THEN Obj(data).officeName ELSE Obj(data).office,
     time |-> IF Obj(data).issuedTime # "" THEN IssuedTime(Obj(data).issuedTime)
              ELSE formatDate(NewDate(Obj(data).updated)),
     body |-> formatText(Obj(data).text.s),
     src |-> data]

\* !this.currentData || !this.currentData.properties
NoData(data) == Obj(data).kind \in {"null", "noproperties"}

\* !text
FalsyText(text) ==
    \/ text.ty = "undefined"
    \/ text.ty = "string" /\ text.s = <<>>
    \/ text.ty = "number" /\ text.v = 0

\* IsBlank without the trim
IsBlankNoTrim(text) == FalsyText(text)

\* !text || text.trim().length === 0, evaluated for a string or a falsy text
IsBlank(text) == FalsyText(text) \/ (text.ty = "string" /\ Trim(text.s) = <<>>)

\* text.trim is not a function: render throws a TypeError
RenderThrows(data) == ~NoData(data) /\ ~FalsyText(Obj(data).text) /\ Obj(data).text.ty # "string"

\* the display render leaves (old: the display before it)
RenderDisplay(data, old) ==
    IF NoData(data) THEN Loading
    ELSE IF RenderThrows(data) THEN old
    ELSE IF IsBlank(Obj(data).text) THEN ErrorDisplay(NoDiscussion)
    ELSE Content(data)

\* what render does, in order
RenderTrace(data) ==
    IF NoData(data) THEN <<"render", "showLoading">>
    ELSE IF RenderThrows(data) THEN <<"render", "throw">>
    ELSE IF IsBlank(Obj(data).text) THEN <<"render", "showError">>
    ELSE IF Obj(data).issuedTime # "" THEN <<"render", "formatText", "write">>
    ELSE <<"render", "formatDate", "formatText", "write">>

MaxCalls == 2

NoCall == [st |-> "idle", data |-> NullData, log |-> <<>>]
NoOp == [op |-> "none", id |-> 0]

TextIdle ==
    /\ rawText = <<>>
    /\ cleaned = <<>>
    /\ recleaned = <<>>
    /\ fragments = <<>>
    /\ formatted = <<>>
    /\ tpc = "input"

DateIdle ==
    /\ dateArg = Undefined
    /\ dateRes = Unknown
    /\ dpc = "input"

\* a widget no operation acts on
WidgetIdle ==
    /\ isLocal = TRUE
    /\ currentData = NullData
    /\ currentOffice = "AJK"
    /\ display = Placeholder
    /\ calls = [id \in 1..MaxCalls |-> NoCall]
    /\ nextId = 1
    /\ lastOp = NoOp
    /\ trace = <<>>
    /\ fault = FALSE
    /\ oddText = FALSE

\* the state new Discussion() leaves: init() ran loadDiscussion() up to its await
Init ==
    /\ isLocal \in BOOLEAN
    /\ currentData = NullData
    /\ currentOffice = "AJK"
    /\ display = IF isLocal THEN Placeholder ELSE Loading
    /\ calls = [id \in 1..MaxCalls |->
                   IF id = 1 /\ ~isLocal
                   THEN [st |-> "pending", data |-> NullData, log |-> <<"showLoading", "fetch">>]
                   ELSE NoCall]
    /\ nextId = IF isLocal THEN 1 ELSE 2
    /\ lastOp = [op |-> "init", id |-> 0]
    /\ trace = IF isLocal THEN <<"showLoading", "showLoading", "placeholder">>
               ELSE <<"showLoading", "showLoading", "fetch">>
    /\ fault = FALSE
    /\ oddText = FALSE
    /\ TextIdle
    /\ DateIdle

\* loadDiscussion(office) up to its await (or to its end, on a local host)
LoadDiscussion(office) ==
    /\ isLocal \/ nextId <= MaxCalls
    /\ currentOffice' = office
    /\ IF isLocal
       THEN /\ display' = Placeholder
            /\ trace' = <<"showLoading", "placeholder">>
            /\ lastOp' = [op |-> "load", id |-> 0]
            /\ UNCHANGED <<calls, nextId>>
       ELSE /\ display' = Loading
            /\ trace' = <<"showLoading", "fetch">>
            /\ calls' = [calls EXCEPT ![nextId] =
                            [st |-> "pending", data |-> NullData, log |-> <<"showLoading", "fetch">>]]
            /\ nextId' = nextId + 1
            /\ lastOp' = [op |-> "load", id |-> nextId]
    /\ UNCHANGED <<isLocal, currentData, fault, oddText, textVars, dateVars>>

\* what a call does once its fetch resolved with data
FulfilTrace(data) ==
    <<"assign">> \o RenderTrace(data)
        \o (IF RenderThrows(data) THEN <<"catch", "showError">> ELSE <<>>)

\* FetchFulfil with a request generation: a superseded call's response is dropped
FetchFulfilLatestOnly(id, data) ==
    /\ calls[id].st = "pending"
    /\ currentData' = IF id = nextId - 1 THEN data ELSE currentData
    /\ display' = IF id # nextId - 1 THEN display
                  ELSE IF RenderThrows(data) THEN ErrorDisplay(LoadFailed)
                  ELSE RenderDisplay(data, display)
    /\ trace' = IF id = nextId - 1 THEN FulfilTrace(data) ELSE <<>>
    /\ calls' = [calls EXCEPT ![id] =
                    [st |-> "fulfilled", data |-> data, log |-> calls[id].log \o trace']]
    /\ lastOp' = [op |-> "fulfil", id |-> id]
    /\ oddText' = (oddText \/ Obj(data).text.ty = "number")
    /\ UNCHANGED <<isLocal, currentOffice, nextId, fault, textVars, dateVars>>

\* the rest of loadDiscussion after its await, the fetch having resolved with data
FetchFulfil(id, data) ==
    /\ calls[id].st = "pending"
    /\ currentData' = data
    /\ display' = IF RenderThrows(data) THEN ErrorDisplay(LoadFailed)
                  ELSE RenderDisplay(data, display)
    /\ trace' = FulfilTrace(data)
    /\ calls' = [calls EXCEPT ![id] =
                    [st |-> "fulfilled", data |-> data, log |-> calls[id].log \o FulfilTrace(data)]]
    /\ lastOp' = [op |-> "fulfil", id |-> id]
    /\ oddText' = (oddText \/ Obj(data).text.ty = "number")
    /\ UNCHANGED <<isLocal, currentOffice, nextId, fault, textVars, dateVars>>

\* the rest of loadDiscussion after its await, the fetch having failed
FetchReject(id) ==
    /\ calls[id].st = "pending"
    /\ display' = ErrorDisplay(LoadFailed)
    /\ trace' = <<"catch", "showError">>
    /\ calls' = [calls EXCEPT ![id] =
                    [st |-> "rejected", data |-> NullData,
                     log |-> calls[id].log \o <<"catch", "showError">>]]
    /\ lastOp' = [op |-> "reject", id |-> id]
    /\ UNCHANGED <<isLocal, currentData, currentOffice, nextId, fault, oddText,
                   textVars, dateVars>>

\* update(data)
Update(data) ==
    /\ currentData' = data
    /\ display' = RenderDisplay(data, display)
    /\ trace' = <<"assign">> \o RenderTrace(data)
    /\ fault' = (fault \/ RenderThrows(data))
    /\ lastOp' = [op |-> "update", id |-> 0]
    /\ oddText' = (oddText \/ Obj(data).text.ty = "number")
    /\ UNCHANGED <<isLocal, currentOffice, calls, nextId, textVars, dateVars>>

\* render()
Render ==
    /\ display' = RenderDisplay(currentData, display)
    /\ trace' = RenderTrace(currentData)
    /\ fault' = (fault \/ RenderThrows(currentData))
    /\ lastOp' = [op |-> "render", id |-> 0]
    /\ UNCHANGED <<isLocal, currentData, currentOffice, calls, nextId, oddText,
                   textVars, dateVars>>

\* clear() that leaves the display alone
ClearDataOnly ==
    /\ currentData' = NullData
    /\ trace' = <<"assign">>
    /\ lastOp' = [op |-> "clear", id |-> 0]
    /\ UNCHANGED <<isLocal, currentOffice, display, calls, nextId, fault, oddText,
                   textVars, dateVars>>

\* clear()
Clear ==
    /\ currentData' = NullData
    /\ display' = Loading
    /\ trace' = <<"assign", "showLoading">>
    /\ lastOp' = [op |-> "clear", id |-> 0]
    /\ UNCHANGED <<isLocal, currentOffice, calls, nextId, fault, oddText,
                   textVars, dateVars>>

Next ==
    \/ \E office \in Offices : LoadDiscussion(office)
    \/ \E id \in 1..MaxCalls, data \in Payloads : FetchFulfil(id, data)
    \/ \E id \in 1..MaxCalls : FetchReject(id)
    \/ \E data \in Payloads : Update(data)
    \/ Render
    \/ Clear

Spec == Init /\ [][Next]_vars

(***************************************************************************)
(* Properties of the widget.                                               *)
(***************************************************************************)

Has(seq, e) == \E i \in 1..Len(seq) : seq[i] = e

Settled(id) == calls[id].st \in {"fulfilled", "rejected"}

\* the text is a string with something to show
Renderable(data) ==
    /\ Obj(data).kind = "bulletin"
    /\ Obj(data).text.ty = "string"
    /\ \E i \in 1..Len(Obj(data).text.s) : ~IsWs(Obj(data).text.s[i])

\* properties present, text absent, empty or all whitespace
BlankBulletin(data) ==
    /\ Obj(data).kind = "bulletin"
    /\ \/ Obj(data).text.ty = "undefined"
       \/ Obj(data).text.ty = "string" /\ \A i \in 1..Len(Obj(data).text.s) : IsWs(Obj(data).text.s[i])

\* the last operation wrote this.content.innerHTML
Wrote(events) ==
    \E i \in 1..Len(events) : events[i] \in {"showLoading", "showError", "write", "placeholder"}

\* right after a fetch resolved, the widget holds and shows what that fetch brought
ShowsLastResolved ==
    lastOp.op = "fulfil" =>
        /\ calls[lastOp.id].st = "fulfilled"
        /\ currentData = calls[lastOp.id].data
        /\ Renderable(currentData) => (display.kind = "content" /\ display.src = currentData)
        /\ BlankBulletin(currentData) => display = ErrorDisplay(NoDiscussion)
        /\ Obj(currentData).kind # "bulletin" => display = Loading

\* a pending fetch stays pending until its own response arrives
NothingCancelled ==
    \A id \in 1..MaxCalls :
        calls[id].st = "pending" =>
            \/ calls'[id].st = "pending"
            \/ lastOp'.id = id /\ lastOp'.op \in {"fulfil", "reject"}

\* C1: with overlapping loads no fetch is cancelled, and after each resolution
\* currentData and the display are those of the fetch that resolved last,
\* whichever was requested first
C1_LastResolvedWins == []ShowsLastResolved /\ [][NothingCancelled]_vars

C1_Witness ==
    /\ lastOp = [op |-> "fulfil", id |-> 1]
    /\ calls[2].st = "fulfilled"
    /\ calls[2].data = BulletinB
    /\ currentData = BulletinA
    /\ display.kind = "content"
    /\ display.src = BulletinA

\* C2 (as claimed): in a call that fetches, the loading display comes first, the
\* fetch second, and then exactly one of success-render (assign and render) and
\* error-render (the catch's showError)
C2_Ordered ==
    \A id \in 1..MaxCalls :
        LET log == calls[id].log
            success == Has(log, "assign") /\ Has(log, "render")
            failure == Has(log, "catch")
        IN  calls[id].st # "idle" =>
                /\ Len(log) >= 2 /\ log[1] = "showLoading" /\ log[2] = "fetch"
                /\ \A i \in 1..Len(log) : log[i] \in {"assign", "render", "catch"} => i > 2
                /\ Settled(id) => (success /\ ~failure) \/ (failure /\ ~success)
                /\ calls[id].st = "pending" => ~success /\ ~failure

\* C3 (as claimed): a call whose fetch resolved stored the result and does not
\* show 'Unable to load forecast discussion'; a call whose fetch failed shows it
C3_StoredOrError ==
    /\ lastOp.op = "fulfil" => (currentData = calls[lastOp.id].data /\ display # ErrorDisplay(LoadFailed))
    /\ lastOp.op = "reject" => display = ErrorDisplay(LoadFailed)

\* C4 (as claimed): no operation ends with an unhandled fault, and with no fetch
\* pending the display is loading, an error or rendered content
C4_Recoverable ==
    /\ ~fault
    /\ (\A id \in 1..MaxCalls : calls[id].st # "pending")
           => display.kind \in {"loading", "error", "content", "placeholder"}

\* C5: render with properties present and the text absent, empty or all
\* whitespace leaves the 'No discussion available' error, and neither calls
\* formatText nor writes the header, from update as from a resolved fetch
C5_BlankTextError ==
    (lastOp.op \in {"update", "fulfil", "render"} /\ BlankBulletin(currentData)) =>
        /\ display = ErrorDisplay(NoDiscussion)
        /\ ~Has(trace, "formatText")
        /\ ~Has(trace, "write")

C5_Witness ==
    /\ lastOp.op = "fulfil"
    /\ currentData = BlankTextBulletin
    /\ display = ErrorDisplay(NoDiscussion)

\* while every text handed over is a string, a bulletin on display is currentData's
DisplayIsCurrent ==
    ~oddText =>
        /\ display.kind = "content" => (display.src = currentData /\ Renderable(currentData))
        /\ lastOp.op = "clear" => (display = Loading /\ currentData = NullData)
        /\ lastOp.op = "load" => display.kind \in {"loading", "placeholder"}

\* while every text handed over is a string, a step that changes currentData writes the display
DataChangeWrites == (~oddText' /\ currentData' # currentData) => Wrote(trace')

\* C10: with string texts only, a formatted bulletin on display is the one in
\* currentData, currentData never changes without the display being written in
\* the same step, and after clear() or a new load no bulletin is on display
C10_DisplayMatchesData == []DisplayIsCurrent /\ [][DataChangeWrites]_vars

C10_Witness ==
    /\ lastOp.op = "clear"
    /\ ~oddText
    /\ calls[1].st = "fulfilled"
    /\ calls[1].data = BulletinA
    /\ display = Loading

(***************************************************************************)
(* formatDate applied to bounded inputs.                                   *)
(***************************************************************************)

MaxTime == 40

DateInputs ==
    {Undefined, Null, EmptyString, GarbageString, NaNNumber, InvalidDate}
        \cup {DateString(t) : t \in 0..MaxTime}
        \cup {Number(t) : t \in 0..MaxTime}
        \cup {DateObject(t) : t \in 0..MaxTime}

InitDate ==
    /\ dateArg \in DateInputs
    /\ dateRes = Unknown
    /\ dpc = "input"
    /\ TextIdle
    /\ WidgetIdle

\* one call of formatDate
FormatDate ==
    /\ dpc = "input"
    /\ dateRes' = formatDate(dateArg)
    /\ dpc' = "done"
    /\ UNCHANGED <<dateArg, textVars, widgetVars>>

NextDate == FormatDate

SpecDate == InitDate /\ [][NextDate]_vars

(***************************************************************************)
(* formatText and its cleaning chain applied to bounded inputs.            *)
(***************************************************************************)

MaxCleanLen == 5
MaxFormatLen == 5

Strings(alphabet, n) == UNION {[1..m -> alphabet] : m \in 0..n}

CleanAlphabet == {Sp, Nl, Dot, Bul, Sq, Dash, Usa, Ph(3)}
FormatAlphabet == {Sp, Nl, Dot, Kw, Ph(3), Ph(16), Ph(400)}

TextStart ==
    /\ cleaned = <<>>
    /\ recleaned = <<>>
    /\ fragments = <<>>
    /\ formatted = <<>>
    /\ tpc = "input"
    /\ DateIdle
    /\ WidgetIdle

InitClean ==
    /\ rawText \in Strings(CleanAlphabet, MaxCleanLen)
    /\ TextStart

InitFormat ==
    /\ rawText \in Strings(FormatAlphabet, MaxFormatLen)
    /\ TextStart

\* the cleaning chain on the input
Clean ==
    /\ tpc = "input"
    /\ cleaned' = CleanText(rawText)
    /\ tpc' = "cleaned"
    /\ UNCHANGED <<rawText, recleaned, fragments, formatted, dateVars, widgetVars>>

\* the cleaning chain on its own output
CleanAgain ==
    /\ tpc = "cleaned"
    /\ recleaned' = CleanText(cleaned)
    /\ tpc' = "recleaned"
    /\ UNCHANGED <<rawText, cleaned, fragments, formatted, dateVars, widgetVars>>

\* one call of formatText
Format ==
    /\ tpc = "input"
    /\ cleaned' = IF rawText = <<>> THEN <<>> ELSE CleanText(rawText)
    /\ fragments' = IF rawText = <<>> THEN <<>> ELSE Fragments(CleanText(rawText))
    /\ formatted' = formatText(rawText)
    /\ tpc' = "formatted"
    /\ UNCHANGED <<rawText, recleaned, dateVars, widgetVars>>

NextClean == Clean \/ CleanAgain
NextFormat == Format

SpecClean == InitClean /\ [][NextClean]_vars
SpecFormat == InitFormat /\ [][NextFormat]_vars

\* the text a reader sees, whitespace aside: tags and whitespace removed
Visible(s) == SelectSeq(s, LAMBDA t : ~IsTag(t) /\ ~IsWs(t))

\* a is b with some tokens deleted
RECURSIVE IsSubseq(_, _)
IsSubseq(a, b) ==
    IF a = <<>> THEN TRUE
    ELSE IF b = <<>> THEN FALSE
    ELSE IF Head(a) = Head(b) THEN IsSubseq(Tail(a), Tail(b))
    ELSE IsSubseq(a, Tail(b))

HasEllipsis(s) == \E p \in 1..Len(s) : s[p].k = "dot" /\ SkipKind(s, p, "dot") - p >= 3
\* some piece between blank lines or ellipsis runs has a period-whitespace
\* boundary with nothing before it
HasEmptySentence(s) ==
    \E j \in 1..Len(SplitBlocks(s)) :
        LET sentences == SplitSentences(Trim(SplitBlocks(s)[j]))
        IN  \E i \in 1..Len(sentences) : Trim(sentences[i]) = <<>> /\ i < Len(sentences)
ShortPieceBesideLong(s) ==
    LET pieces == SplitBlocks(s)
    IN  /\ \E i \in 1..Len(pieces) : StrLen(Trim(pieces[i])) <= MinFragmentLen
        /\ \E i \in 1..Len(pieces) : StrLen(Trim(pieces[i])) > MinFragmentLen

\* C9 (as claimed): cleaning the cleaned text changes nothing
C9_Idempotent == tpc = "recleaned" => recleaned = cleaned

\* C7 (as claimed): the visible text of the output is that of the cleaned text
C7_Preserved == tpc = "formatted" => Visible(formatted) = Visible(cleaned)

\* C7 (amended): formatText adds and reorders no visible character, and it drops
\* none unless the cleaned text has an ellipsis run, a piece of at most 15
\* characters beside a longer one, or an empty sentence
C7_NothingAdded ==
    tpc = "formatted" =>
        /\ IsSubseq(Visible(formatted), Visible(cleaned))
        /\ (~HasEllipsis(cleaned) /\ ~HasEmptySentence(cleaned) /\ ~ShortPieceBesideLong(cleaned))
               => Visible(formatted) = Visible(cleaned)

C7_Witness ==
    /\ tpc = "formatted"
    /\ Len(fragments) >= 2
    /\ Visible(formatted) = Visible(cleaned)
    /\ \E p \in 1..Len(formatted) : formatted[p] = TagStrong

\* C8 (as claimed): no fragment is longer than 700 characters
C8_Bounded ==
    tpc = "formatted" => \A i \in 1..Len(fragments) : StrLen(fragments[i]) <= LongParagraphLen

\* C8 (amended): a fragment the paragraph map emits is at most 700 characters
\* long unless it is a single sentence
C8_BoundedOrOneSentence ==
    (tpc = "formatted" /\ Paragraphs(cleaned) # <<>>) =>
        \A i \in 1..Len(fragments) :
            StrLen(fragments[i]) <= LongParagraphLen \/ Len(SplitSentences(fragments[i])) = 1

C8_Witness ==
    /\ tpc = "formatted"
    /\ \E i \in 1..Len(Paragraphs(cleaned)) : StrLen(Paragraphs(cleaned)[i]) > LongParagraphLen
    /\ Len(fragments) >= 2
    /\ \A i \in 1..Len(fragments) : StrLen(fragments[i]) <= LongParagraphLen

\* C6 (as claimed): formatDate returns "Unknown" for every value that is no date
C6_UnknownForInvalid == (dpc = "done" /\ ~NewDate(dateArg).valid) => dateRes = Unknown

====
